---------------------------- MODULE Spec2Model ----------------------------
(***************************************************************************)
(* Model of EM_classification.py: the operation-probability model          *)
(* (get_align_stats, get_char_align_probabilites), the likelihood matrix   *)
(* (compute_log_L_rgs, log_L_rgs_dict), the EM estimator (EM_iterations)   *)
(* and the reducer (f_reduce).                                             *)
(*                                                                         *)
(* Numbers.  The program computes with floats; the model computes with     *)
(* exact rationals <<num, den>> (den > 0, lowest terms).  A probability or *)
(* an abundance x is the rational x.  A log-likelihood v (a value of       *)
(* math.log, a score, total_log_likelihood) is represented by the rational *)
(* exp(v): log(p) * n is p^n, a sum of logs is a product, v < w is         *)
(* exp(v) < exp(w), and -inf is <<0, 1>>.  None is NoneVal.                *)
(*                                                                         *)
(* Range.  Inside EM_iterations a log-likelihood is a triple               *)
(* <<num, den, e>> that stands for log(num / den) - 1000 * e.  A float     *)
(* holds such a value, but math.e ** v is 0.0 once v is below about -745:  *)
(* a value with e > 0 that is exponentiated underflows to Zero (see Exp).  *)
(*                                                                         *)
(* Rounding.  The one place where the float results and the exact ones     *)
(* part is the comparison of two totals of EM_iterations that are equal as *)
(* reals: the floats may differ in their last bits, in either direction.   *)
(* EMPass takes both outcomes (see RoundsLow).                             *)
(***************************************************************************)
EXTENDS Integers, Sequences, FiniteSets, TLC

VARIABLES
    \* get_char_align_probabilites / log_L_rgs_dict (main, lines 243-244)
    sam,                        \* the alignment records samfile.fetch() yields
    pcB,                        \* position of the build
    idx,                        \* records the running loop has consumed
    char_align_stats_primary,   \* the Counter of line 52
    p_char,                     \* the returned model (line 54)
    log_L_rgs,                  \* the matrix under construction (line 79)
    \* EM_iterations
    em_L, db_ids, f, total_log_likelihood, prev_log_likelihood,
    f_sum, n_reads, passes, pcE,
    rounded_low,                \* the float total fell below an equal one
    \* f_reduce
    rf, threshold, reduced, reduced2, pcR

buildVars == <<sam, pcB, idx, char_align_stats_primary, p_char, log_L_rgs>>
emVars == <<em_L, db_ids, f, total_log_likelihood, prev_log_likelihood,
            f_sum, n_reads, passes, pcE, rounded_low>>
reduceVars == <<rf, threshold, reduced, reduced2, pcR>>
vars == <<buildVars, emVars, reduceVars>>

---------------------------------------------------------------------------
(* Exact rational arithmetic standing for the program's float arithmetic.  *)

Abs(x) == IF x < 0 THEN -x ELSE x

RECURSIVE GCD(_, _)
GCD(a, b) == IF b = 0 THEN a ELSE GCD(b, a % b)

Norm(n, d) ==
    LET g == GCD(Abs(n), Abs(d))
    IN  IF d < 0 THEN <<-(n \div g), (-d) \div g>> ELSE <<n \div g, d \div g>>

Zero == <<0, 1>>
One == <<1, 1>>
NoneVal == <<0, 0>>

RatAdd(a, b) ==
    LET g == GCD(a[2], b[2])
    IN  Norm(a[1] * (b[2] \div g) + b[1] * (a[2] \div g), (a[2] \div g) * b[2])
RatMul(a, b) ==
    LET x == Norm(a[1], b[2])
        y == Norm(b[1], a[2])
    IN  <<x[1] * y[1], x[2] * y[2]>>
RatDiv(a, b) == RatMul(a, <<b[2], b[1]>>)

RECURSIVE FracLess(_, _, _, _)
\* a/b < c/d for a, c >= 0 and b, d > 0, by quotients and remainders only
FracLess(a, b, c, d) ==
    LET qa == a \div b
        qc == c \div d
        ra == a % b
        rc == c % d
    IN  IF qa # qc THEN qa < qc
        ELSE IF rc = 0 THEN FALSE
        ELSE IF ra = 0 THEN TRUE
        ELSE FracLess(d, rc, b, ra)

RatLess(a, b) ==
    IF a[1] < 0 /\ b[1] >= 0 THEN TRUE
    ELSE IF a[1] >= 0 /\ b[1] < 0 THEN FALSE
    ELSE IF a[1] < 0 THEN FracLess(-b[1], b[2], -a[1], a[2])
    ELSE FracLess(a[1], a[2], b[1], b[2])

RatLeq(a, b) == ~RatLess(b, a)

RECURSIVE RatPow(_, _)
\* p^n for an integer n: the image of math.log(p) * n
RatPow(p, n) ==
    IF n = 0 THEN One
    ELSE IF n < 0 THEN RatPow(<<p[2], p[1]>>, -n)
    ELSE RatMul(p, RatPow(p, n - 1))

RECURSIVE RatSum(_, _)
\* sum(m.values()) over the keys ks of the mapping m
RatSum(m, ks) ==
    IF ks = {} THEN Zero
    ELSE LET k == CHOOSE x \in ks : TRUE
         IN  RatAdd(m[k], RatSum(m, ks \ {k}))

RECURSIVE RatProd(_, _)
RatProd(m, ks) ==
    IF ks = {} THEN One
    ELSE LET k == CHOOSE x \in ks : TRUE
         IN  RatMul(m[k], RatProd(m, ks \ {k}))

RECURSIVE IntSum(_, _)
IntSum(m, ks) ==
    IF ks = {} THEN 0
    ELSE LET k == CHOOSE x \in ks : TRUE
         IN  m[k] + IntSum(m, ks \ {k})

EmptyMap == [k \in {} |-> 0]

---------------------------------------------------------------------------
(* get_align_stats                                                         *)

\* dict(zip(cigar_headers, cigar_stats)), then lines 32-35
get_align_stats(cigar_stats) ==
    LET nm == cigar_stats[11]
        X == nm - cigar_stats[2] - cigar_stats[3]
    IN  [M |-> cigar_stats[1] - X, I |-> cigar_stats[2], D |-> cigar_stats[3],
         N |-> cigar_stats[4], S |-> cigar_stats[5], H |-> cigar_stats[6],
         P |-> cigar_stats[7], EQ |-> cigar_stats[8], X |-> X,
         B |-> cigar_stats[10], C |-> cigar_stats[6] + cigar_stats[5]]


---------------------------------------------------------------------------
(* Inputs of the build: the records of one alignment file.                 *)

MaxRecs == 2

ReadIds == {"r1", "r2"}
NoRef == "None"
RefNames == {"A", NoRef}

\* read.get_cigar_stats()[0]: counts in the order M I D N S H P = X B NM
Cigar(m, i, s, nm) == <<m, i, 0, 0, s, 0, 0, 0, 0, 0, nm>>

CigarStats ==
    { Cigar(0, 0, 0, 0),      \* no operation at all (an unmapped read)
      Cigar(2, 0, 0, 0),      \* two matches
      Cigar(2, 0, 0, 1),      \* one match, one substitution
      Cigar(1, 1, 0, 1),      \* one match, one insertion
      Cigar(1, 1, 0, 0),      \* NM < I + D: substitution count -1
      Cigar(1, 0, 1, 2) }     \* NM > M: match' count -1, one soft clip

Flags == { <<FALSE, FALSE>>, <<TRUE, FALSE>>, <<FALSE, TRUE>> }

Alignments ==
    { [query_name |-> q, reference_name |-> r, is_secondary |-> fl[1],
       is_supplementary |-> fl[2], cigar_stats |-> c] :
        q \in ReadIds, r \in RefNames, fl \in Flags, c \in CigarStats }

SamFiles == UNION { [1..n -> Alignments] : n \in 0..MaxRecs }

---------------------------------------------------------------------------
(* get_char_align_probabilites                                             *)

Get(m, k) == IF k \in DOMAIN m THEN m[k] ELSE 0

\* Counter(a) + Counter(b): collections.Counter.__add__ keeps a key only
\* when its summed count is positive
CounterAdd(a, b) ==
    LET keep == { k \in DOMAIN a : a[k] + Get(b, k) > 0 }
                \cup { k \in DOMAIN b \ DOMAIN a : b[k] > 0 }
    IN  [k \in keep |-> Get(a, k) + Get(b, k)]

IsPrimary(read) == ~read.is_secondary /\ ~read.is_supplementary

\* one turn of the loop of lines 49-52
AccumulateRead(stats, read) ==
    IF IsPrimary(read)
    THEN CounterAdd(stats, get_align_stats(read.cigar_stats))
    ELSE stats

\* lines 53-54
Normalize(stats) ==
    LET n_char == IntSum(stats, DOMAIN stats)
    IN  [char \in DOMAIN stats |-> Norm(stats[char], n_char)]

RECURSIVE AccumulateAll(_, _)
AccumulateAll(stats, reads) ==
    IF reads = <<>> THEN stats
    ELSE AccumulateAll(AccumulateRead(stats, Head(reads)), Tail(reads))

\* the whole function, on the records of a file
get_char_align_probabilites(bwa_sam) == Normalize(AccumulateAll(EmptyMap, bwa_sam))

---------------------------------------------------------------------------
(* compute_log_L_rgs, log_L_rgs_dict                                       *)

ScoredChars == <<"M", "X", "I", "D", "C">>

RECURSIVE ScoreFrom(_, _, _, _)
\* the loop of lines 64-68 from its k-th category on
ScoreFrom(p, cigar_stats, k, value) ==
    IF k > Len(ScoredChars) THEN value
    ELSE LET char == ScoredChars[k]
         IN  IF char \notin DOMAIN p /\ cigar_stats[char] > 0 THEN NoneVal
             ELSE IF char \in DOMAIN p
                  THEN ScoreFrom(p, cigar_stats, k + 1,
                                 RatMul(value, RatPow(p[char], cigar_stats[char])))
                  ELSE ScoreFrom(p, cigar_stats, k + 1, value)

compute_log_L_rgs(p, cigar_stats) == ScoreFrom(p, cigar_stats, 1, One)

Key(alignment) == <<alignment.query_name, alignment.reference_name>>

\* line 84, once both operands of < exist
ReplacesStoredWhenLower(stored, val) == RatLess(val, stored)
ReplacesStored(stored, val) == RatLess(stored, val)

\* line 84 evaluates stored < None: a TypeError ends the build
ComparesWithNone(matrix, p, alignment) ==
    /\ alignment.reference_name # NoRef
    /\ Key(alignment) \in DOMAIN matrix
    /\ compute_log_L_rgs(p, get_align_stats(alignment.cigar_stats)) = NoneVal

\* lines 82-85 for one record that raises nothing: the matrix after it
MatrixAfter(matrix, p, alignment) ==
    IF alignment.reference_name = NoRef THEN matrix
    ELSE LET val == compute_log_L_rgs(p, get_align_stats(alignment.cigar_stats))
             key == Key(alignment)
         IN  IF (key \notin DOMAIN matrix \/ ReplacesStored(matrix[key], val))
                /\ val # NoneVal
             THEN [k \in DOMAIN matrix \cup {key} |->
                       IF k = key THEN val ELSE matrix[k]]
             ELSE matrix

BuildInit ==
    /\ sam \in SamFiles
    /\ pcB = "model"
    /\ idx = 0
    /\ char_align_stats_primary = EmptyMap
    /\ p_char = EmptyMap
    /\ log_L_rgs = EmptyMap

ModelStep ==
    /\ pcB = "model"
    /\ idx < Len(sam)
    /\ char_align_stats_primary' = AccumulateRead(char_align_stats_primary, sam[idx + 1])
    /\ idx' = idx + 1
    /\ UNCHANGED <<sam, pcB, p_char, log_L_rgs>>

ModelReturn ==
    /\ pcB = "model"
    /\ idx = Len(sam)
    /\ p_char' = Normalize(char_align_stats_primary)
    /\ pcB' = "matrix"
    /\ idx' = 0
    /\ UNCHANGED <<sam, char_align_stats_primary, log_L_rgs>>

MatrixStep ==
    /\ pcB = "matrix"
    /\ idx < Len(sam)
    /\ IF ComparesWithNone(log_L_rgs, p_char, sam[idx + 1])
       THEN /\ pcB' = "TypeError"
            /\ UNCHANGED <<idx, log_L_rgs>>
       ELSE /\ log_L_rgs' = MatrixAfter(log_L_rgs, p_char, sam[idx + 1])
            /\ idx' = idx + 1
            /\ pcB' = pcB
    /\ UNCHANGED <<sam, char_align_stats_primary, p_char>>

MatrixReturn ==
    /\ pcB = "matrix"
    /\ idx = Len(sam)
    /\ pcB' = "done"
    /\ UNCHANGED <<sam, idx, char_align_stats_primary, p_char, log_L_rgs>>

---------------------------------------------------------------------------
(* EM_iterations                                                           *)

MaxDbIds == 2

EMReads == {"r1", "r2"}
EMRefs == {"A", "B", "C"}
AlignedRefs == {"A", "B"}

\* the log-likelihoods an entry may hold: 0, -log 2, -log 3 and -1000
EntryValues == { <<1, 1, 0>>, <<1, 2, 0>>, <<1, 3, 0>>, <<1, 1, 1>> }
\* 0 and -1000
CoarseValues == { <<1, 1, 0>>, <<1, 1, 1>> }

\* the entries of one read on two references
Rows == UNION { [d -> EntryValues] : d \in SUBSET AlignedRefs }

\* the matrix of read r1 alone with the entries of row
OneRead(row) == [k \in {"r1"} \X DOMAIN row |-> row[k[2]]]

\* the matrix of r1 with the entries of row and r2 with the same entries,
\* the two references exchanged
Mirror(s) == IF s = "A" THEN "B" ELSE "A"
Mirrored(row) ==
    [k \in ({"r1"} \X DOMAIN row) \cup
           ({"r2"} \X { Mirror(s) : s \in DOMAIN row }) |->
        IF k[1] = "r1" THEN row[k[2]] ELSE row[Mirror(k[2])]]

\* The matrices EM_iterations is run on: every matrix of the two reads on
\* three references with coarse values, and the one-read and the mirrored
\* matrices with every value.  On each of them the loop of lines 101-136
\* ends, and its exact rationals stay within the integers of the checker.
Matrices ==
    UNION { [d -> CoarseValues] : d \in SUBSET (EMReads \X EMRefs) }
    \cup { OneRead(row) : row \in Rows }
    \cup { Mirrored(row) : row \in Rows }

\* db_ids is a list (main, line 224): an id may occur more than once
DbLists == UNION { [1..n -> EMRefs] : n \in 0..MaxDbIds }

\* the keys of dict.fromkeys(db_ids, ...) (line 98)
IdsOf(ids) == { ids[i] : i \in 1..Len(ids) }

\* .999 <= f_sum <= 1.0001 (line 126)
SumLoNum == 999
SumLoDen == 1000
SumHiNum == 10001
SumHiDen == 10000
\* The threshold of line 135 as a bound on the ratio of the two likelihoods:
\* total - prev < .01 is total / prev < exp(.01).  exp(.01) = 1.01005016708...
\* is irrational; 120601201 / 119401199 is the least fraction above it with
\* numerator and denominator below 2^31, and 2110581318 / 2089580683 the
\* greatest one below it.  The two are neighbours (120601201 * 2089580683 -
\* 2110581318 * 119401199 = 1), so no such fraction lies between them and a
\* ratio is below exp(.01) exactly when it is below 120601201 / 119401199.
Exp001Num == 120601201
Exp001Den == 119401199

\* the parts of a log-likelihood <<num, den, e>>
Mant(v) == <<v[1], v[2]>>
Far(v) == v[3]
LogVal(q, e) == <<q[1], q[2], e>>

\* math.log(x) of a float x > 0
Log(x) == LogVal(x, 0)

\* -inf
LogNegInf == LogVal(Zero, 0)

\* v + w and -v of two log-likelihoods
LogPlus(v, w) == LogVal(RatMul(Mant(v), Mant(w)), Far(v) + Far(w))
LogNeg(v) == LogVal(RatDiv(One, Mant(v)), 0 - Far(v))

\* v < w (a unit of -1000 outweighs every log(num / den) of the model)
LogLess(v, w) ==
    IF Mant(v) = Zero \/ Mant(w) = Zero
    THEN Mant(v) = Zero /\ Mant(w) # Zero
    ELSE \/ Far(v) > Far(w)
         \/ Far(v) = Far(w) /\ RatLess(Mant(v), Mant(w))
LogLeq(v, w) == v = w \/ LogLess(v, w)

\* math.e ** v for v <= 0 (line 108): 0.0 when v is below the float range
Exp(v) == IF Far(v) > 0 THEN Zero ELSE Mant(v)

\* total_log_likelihood = -math.inf (line 100)
InitialTotalLogZero == Log(One)
InitialTotal == LogNegInf

LogMax(m, ks) == CHOOSE x \in { m[k] : k \in ks } :
                    \A k \in ks : LogLeq(m[k], x)

\* lines 103-106: log(L(r|s)) + log(f(s)) for the entries with s in f, f[s] != 0
log_L_rns(matrix, fv) ==
    [k \in { e \in DOMAIN matrix : e[2] \in DOMAIN fv /\ fv[e[2]] # Zero } |->
        LogPlus(matrix[k], Log(fv[k[2]]))]

ReadsOf(m) == { k[1] : k \in DOMAIN m }
RefsOf(m) == { k[2] : k \in DOMAIN m }
RowOf(m, r) == { k \in DOMAIN m : k[1] = r }
ColOf(m, s) == { k \in DOMAIN m : k[2] = s }

\* line 107: log_c[r] = -max_s log_L_rns[r, s]
log_c(J) == [r \in ReadsOf(J) |-> LogNeg(LogMax(J, RowOf(J, r)))]

\* line 108
L_rns_c(J) ==
    LET c == log_c(J)
    IN  [k \in DOMAIN J |-> Exp(LogPlus(J[k], c[k[1]]))]

\* line 109
L_r_c(J) ==
    LET x == L_rns_c(J)
    IN  [r \in ReadsOf(J) |-> RatSum(x, RowOf(J, r))]

\* line 112: P(s|r)
L_sgr(J) ==
    LET x == L_rns_c(J)
        t == L_r_c(J)
    IN  [k \in DOMAIN J |-> RatDiv(x[k], t[k[1]])]

\* line 115
NReadsAll(matrix, J) == Cardinality(ReadsOf(matrix))
NReads(matrix, J) == Cardinality(ReadsOf(J))

\* line 116: log(v) - log_c[r]
log_L_r(J) ==
    LET t == L_r_c(J)
        c == log_c(J)
    IN  [r \in ReadsOf(J) |-> LogPlus(Log(t[r]), LogNeg(c[r]))]

\* line 118
TotalLogLikelihood(J) ==
    LET v == log_L_r(J)
    IN  LogVal(RatProd([r \in ReadsOf(J) |-> Mant(v[r])], ReadsOf(J)),
               IntSum([r \in ReadsOf(J) |-> Far(v[r])], ReadsOf(J)))

\* line 119
UpdatedF(matrix, J) ==
    LET p == L_sgr(J)
        n == NReads(matrix, J)
    IN  [s \in RefsOf(J) |-> RatDiv(RatSum(p, ColOf(J, s)), <<n, 1>>)]

\* line 126
SumInRangeDropped(x) == TRUE
SumInRange(x) ==
    /\ RatLeq(<<SumLoNum, SumLoDen>>, x)
    /\ RatLeq(x, <<SumHiNum, SumHiDen>>)

\* lines 107-118 in floats: a read with two or more entries has its
\* likelihood summed through exp and log, and f is not bit-identical from
\* one pass to the next; a total equal to the previous one as a real may
\* then come out a few ulps lower (TRUE) or not (FALSE).  With one entry in
\* every row L_sgr is 1.0, f is bit-identical from the first pass on, and
\* equal totals are equal floats.
RoundsLow(J, total, prev) ==
    IF total = prev /\ \E r \in ReadsOf(J) : Cardinality(RowOf(J, r)) >= 2
    THEN BOOLEAN
    ELSE {FALSE}

\* line 131: total_log_likelihood - prev_log_likelihood < 0
Decreased(total, prev, low) == LogLess(total, prev) \/ low

\* line 135: total_log_likelihood - prev_log_likelihood < .01
\* (prev = -inf makes the difference +inf)
SmallIncrease(total, prev) ==
    /\ prev # LogNegInf
    /\ IF Far(total) # Far(prev) THEN Far(total) > Far(prev)
       ELSE RatLess(RatDiv(Mant(total), Mant(prev)), <<Exp001Num, Exp001Den>>)


EMInit ==
    /\ em_L \in Matrices
    /\ db_ids \in DbLists
    /\ pcE = "start"
    /\ f = EmptyMap
    /\ total_log_likelihood = LogNegInf
    /\ prev_log_likelihood = LogNegInf
    /\ f_sum = Zero
    /\ n_reads = 0
    /\ passes = 0
    /\ rounded_low = FALSE

\* lines 97-100
EMStart ==
    /\ pcE = "start"
    /\ IF Len(db_ids) = 0
       THEN /\ pcE' = "ZeroDivisionError"
            /\ UNCHANGED <<f, total_log_likelihood>>
       ELSE /\ f' = [s \in IdsOf(db_ids) |-> Norm(1, Len(db_ids))]
            /\ total_log_likelihood' = InitialTotal
            /\ pcE' = "loop"
    /\ UNCHANGED <<em_L, db_ids, prev_log_likelihood, f_sum, n_reads, passes,
                   rounded_low>>

\* one pass through the loop of lines 101-136
EMPass ==
    /\ pcE = "loop"
    /\ LET J == log_L_rns(em_L, f)
       IN  /\ n_reads' = NReads(em_L, J)
           /\ prev_log_likelihood' = total_log_likelihood
           /\ total_log_likelihood' = TotalLogLikelihood(J)
           /\ f' = UpdatedF(em_L, J)
           /\ f_sum' = RatSum(f', DOMAIN f')
           /\ rounded_low' \in RoundsLow(J, total_log_likelihood',
                                         prev_log_likelihood')
           /\ pcE' = IF ~SumInRange(f_sum') THEN "ValueError_sum"
                     ELSE IF Decreased(total_log_likelihood',
                                       prev_log_likelihood', rounded_low')
                          THEN "ValueError_decrease"
                     ELSE IF SmallIncrease(total_log_likelihood',
                                           prev_log_likelihood')
                          THEN "returned"
                     ELSE "loop"
    /\ passes' = passes + 1
    /\ UNCHANGED <<em_L, db_ids>>

---------------------------------------------------------------------------
(* f_reduce                                                                *)

MaxUnits == 3

ReduceKeys == {"A", "B", "C"}
\* abundances and thresholds in quarters
Quarters == { Norm(k, 4) : k \in 0..MaxUnits }
Thresholds == { Norm(k, 4) : k \in -1..2 }
Vectors == UNION { [d -> Quarters] : d \in SUBSET ReduceKeys }

\* line 145
Kept(fv, t) == { k \in DOMAIN fv : RatLess(t, fv[k]) }

\* line 146
KeptTotalWhole(fv, t) == RatSum(fv, DOMAIN fv)
KeptTotal(fv, t) == RatSum(fv, Kept(fv, t))

\* line 147 divides by f_total once per kept key
ReduceDividesByZero(fv, t) == Kept(fv, t) # {} /\ KeptTotal(fv, t) = Zero

\* lines 145-147, when no division by zero happens
f_reduce(fv, t) == [k \in Kept(fv, t) |-> RatDiv(fv[k], KeptTotal(fv, t))]

ReduceInit ==
    /\ rf \in Vectors
    /\ threshold \in Thresholds
    /\ reduced = EmptyMap
    /\ reduced2 = EmptyMap
    /\ pcR = "start"

\* f_reduce(f, threshold)
ReduceOnce ==
    /\ pcR = "start"
    /\ IF ReduceDividesByZero(rf, threshold)
       THEN pcR' = "ZeroDivisionError" /\ UNCHANGED reduced
       ELSE pcR' = "once" /\ reduced' = f_reduce(rf, threshold)
    /\ UNCHANGED <<rf, threshold, reduced2>>

\* f_reduce applied to the result of f_reduce, same threshold
ReduceAgain ==
    /\ pcR = "once"
    /\ IF ReduceDividesByZero(reduced, threshold)
       THEN pcR' = "ZeroDivisionError" /\ UNCHANGED reduced2
       ELSE pcR' = "twice" /\ reduced2' = f_reduce(reduced, threshold)
    /\ UNCHANGED <<rf, threshold, reduced>>

---------------------------------------------------------------------------
(* Specifications                                                          *)

BuildIdle ==
    /\ sam = <<>> /\ pcB = "idle" /\ idx = 0
    /\ char_align_stats_primary = EmptyMap /\ p_char = EmptyMap
    /\ log_L_rgs = EmptyMap

EMIdle ==
    /\ em_L = EmptyMap /\ db_ids = <<>> /\ pcE = "idle" /\ f = EmptyMap
    /\ total_log_likelihood = LogNegInf /\ prev_log_likelihood = LogNegInf
    /\ f_sum = Zero /\ n_reads = 0 /\ passes = 0 /\ rounded_low = FALSE

ReduceIdle ==
    /\ rf = EmptyMap /\ threshold = Zero /\ reduced = EmptyMap
    /\ reduced2 = EmptyMap /\ pcR = "idle"

\* main, lines 243-244: the model, then the matrix, from one file
InitBuild == BuildInit /\ EMIdle /\ ReduceIdle
NextBuild ==
    \/ ModelStep /\ UNCHANGED <<emVars, reduceVars>>
    \/ ModelReturn /\ UNCHANGED <<emVars, reduceVars>>
    \/ MatrixStep /\ UNCHANGED <<emVars, reduceVars>>
    \/ MatrixReturn /\ UNCHANGED <<emVars, reduceVars>>
SpecBuild == InitBuild /\ [][NextBuild]_vars

\* EM_iterations on a matrix and a reference universe
InitEM == EMInit /\ BuildIdle /\ ReduceIdle
NextEM ==
    \/ EMStart /\ UNCHANGED <<buildVars, reduceVars>>
    \/ EMPass /\ UNCHANGED <<buildVars, reduceVars>>
SpecEM == InitEM /\ [][NextEM]_vars

\* f_reduce, and f_reduce of its result
InitReduce == ReduceInit /\ BuildIdle /\ EMIdle
NextReduce ==
    \/ ReduceOnce /\ UNCHANGED <<buildVars, emVars>>
    \/ ReduceAgain /\ UNCHANGED <<buildVars, emVars>>
SpecReduce == InitReduce /\ [][NextReduce]_vars

\* main, line 246
MainThreshold == <<1, 10000>>

\* main, line 224: db_ids is read before the file is
MainInit ==
    /\ BuildInit
    /\ db_ids \in DbLists
    /\ em_L = EmptyMap /\ pcE = "idle" /\ f = EmptyMap
    /\ total_log_likelihood = LogNegInf /\ prev_log_likelihood = LogNegInf
    /\ f_sum = Zero /\ n_reads = 0 /\ passes = 0 /\ rounded_low = FALSE
    /\ ReduceIdle

\* main, line 245: EM_iterations is called on the matrix of line 244
MainEM ==
    /\ pcB = "done"
    /\ pcE = "idle"
    /\ em_L' = [k \in DOMAIN log_L_rgs |-> LogVal(log_L_rgs[k], 0)]
    /\ pcE' = "start"
    /\ UNCHANGED <<db_ids, f, total_log_likelihood, prev_log_likelihood,
                   f_sum, n_reads, passes, rounded_low>>
    /\ UNCHANGED <<buildVars, reduceVars>>

\* main, line 246: f_reduce is called on the f that EM_iterations returned
MainReduce ==
    /\ pcE = "returned"
    /\ pcR = "idle"
    /\ rf' = f
    /\ threshold' = MainThreshold
    /\ pcR' = "start"
    /\ UNCHANGED <<reduced, reduced2>>
    /\ UNCHANGED <<buildVars, emVars>>

\* main, lines 243-246: an exception of a call ends the run
Init == MainInit
Next ==
    \/ ModelStep /\ UNCHANGED <<emVars, reduceVars>>
    \/ ModelReturn /\ UNCHANGED <<emVars, reduceVars>>
    \/ MatrixStep /\ UNCHANGED <<emVars, reduceVars>>
    \/ MatrixReturn /\ UNCHANGED <<emVars, reduceVars>>
    \/ MainEM
    \/ EMStart /\ UNCHANGED <<buildVars, reduceVars>>
    \/ EMPass /\ UNCHANGED <<buildVars, reduceVars>>
    \/ MainReduce
    \/ ReduceOnce /\ UNCHANGED <<buildVars, emVars>>
Spec == Init /\ [][Next]_vars

---------------------------------------------------------------------------
(* Claims about EM_iterations (SpecEM)                                     *)

Aborted == {"ValueError_sum", "ValueError_decrease"}

SumWithinTolerance ==
    /\ RatLeq(<<SumLoNum, SumLoDen>>, f_sum)
    /\ RatLeq(f_sum, <<SumHiNum, SumHiDen>>)

\* the total the program compared is the float one
LikelihoodNotLower ==
    /\ ~LogLess(total_log_likelihood, prev_log_likelihood)
    /\ ~rounded_low

IncreaseBelowThreshold ==
    /\ prev_log_likelihood # LogNegInf
    /\ Far(total_log_likelihood) = Far(prev_log_likelihood)
    /\ RatLess(RatDiv(Mant(total_log_likelihood), Mant(prev_log_likelihood)),
               <<Exp001Num, Exp001Den>>)

\* C1: EM_iterations returns f only from a pass in which (a) the updated f
\* sums to a value in [0.999, 1.0001], (b) the total log-likelihood is not
\* lower than the previous pass's and (c) its increase is below 0.01; a pass
\* in which (a) or (b) fails ends in an error, after which no vector is
\* returned and no further pass starts.
C1_NoPartialOutput ==
    /\ [](/\ pcE = "returned" =>
                SumWithinTolerance /\ LikelihoodNotLower /\ IncreaseBelowThreshold
          /\ (passes >= 1 /\ ~(SumWithinTolerance /\ LikelihoodNotLower)) =>
                pcE \in Aborted)
    /\ [][(pcE \in Aborted) => (pcE' = pcE /\ passes' = passes /\ f' = f)]_vars

C1_Witness ==
    /\ pcE = "returned"
    /\ passes >= 5
    /\ Cardinality(DOMAIN f) >= 2
    /\ LogLess(prev_log_likelihood, total_log_likelihood)

ReadsAlignedIn(refs) ==
    { r \in EMReads : \E s \in refs : <<r, s>> \in DOMAIN em_L }

\* C9 as stated: in every pass the denominator |R| is the number of distinct
\* reads with at least one entry in the matrix, also when the matrix holds
\* references outside S.
C9_AllMatrixReads ==
    passes >= 1 => n_reads = Cardinality(ReadsAlignedIn(EMRefs))

\* C9 amended: in every pass the denominator |R| is the number of distinct
\* reads with at least one entry whose reference is in S, also in the passes
\* after some f_s has become 0; a read whose entries all lie outside S is
\* left out of numerator and denominator.
C9_ReadsAlignedInS ==
    passes >= 1 => n_reads = Cardinality(ReadsAlignedIn(IdsOf(db_ids)))

\* a run that returned with one of two reads counted (the other is aligned
\* outside S) after a reference of S with an entry fell to 0 and out of f
C9_Witness ==
    /\ pcE = "returned"
    /\ n_reads = 1
    /\ Cardinality(ReadsAlignedIn(EMRefs)) = 2
    /\ Cardinality(IdsOf(db_ids)) = 2
    /\ \E s \in IdsOf(db_ids) :
           /\ s \notin DOMAIN f
           /\ \E r \in EMReads : <<r, s>> \in DOMAIN em_L

SingleReference(s) ==
    /\ DOMAIN em_L # {}
    /\ RefsOf(em_L) = {s}
    /\ s \in IdsOf(db_ids)

\* C4 as stated: when every read aligns only to one reference, EM_iterations
\* returns at the end of its first pass, with abundance 1 for that reference.
C4_ReturnsInFirstPass ==
    \A s \in EMRefs :
        (SingleReference(s) /\ passes = 1) =>
            (pcE = "returned" /\ f = [x \in {s} |-> One])

\* C4 amended: when every read aligns only to one reference s of S (and the
\* matrix is not empty), EM_iterations never returns from its first pass
\* (the previous log-likelihood is -inf there); f is {s: 1} from the first
\* pass on, no pass fails, and the function returns at the end of its second
\* pass when db_ids holds one id and of its third pass otherwise (an id
\* listed twice counts twice).
C4_ReturnsInSecondOrThirdPass ==
    \A s \in EMRefs :
        SingleReference(s) =>
            /\ pcE \in {"start", "loop", "returned"}
            /\ passes >= 1 => f = [x \in {s} |-> One]
            /\ pcE = "returned" <=>
                   passes = (IF Len(db_ids) = 1 THEN 2 ELSE 3)

C4_Witness ==
    /\ \E s \in EMRefs : SingleReference(s)
    /\ Cardinality(ReadsOf(em_L)) = 2
    /\ Len(db_ids) = 2
    /\ pcE = "returned"
    /\ passes = 3

---------------------------------------------------------------------------
(* Claims about the build (SpecBuild)                                      *)

ModelReturned == pcB \in {"matrix", "done", "TypeError"}

HasPrimary == \E i \in 1..Len(sam) : IsPrimary(sam[i])

Score(alignment) ==
    compute_log_L_rgs(p_char, get_align_stats(alignment.cigar_stats))

\* the scores of the scorable records among the first k that name the pair
ScoresOf(key, k) ==
    { Score(sam[i]) :
        i \in { j \in 1..k : /\ sam[j].reference_name # NoRef
                             /\ Key(sam[j]) = key
                             /\ Score(sam[j]) # NoneVal } }

AllKeys == ReadIds \X (RefNames \ {NoRef})

\* C2: after log_L_rgs_dict has processed its records, the entry of each
\* (read, reference) pair is the maximum score of the pair's scorable
\* records with a reference, whatever their order (and so it is after each
\* record, for the records processed so far); a stored entry changes only
\* to a strictly greater score.
C2_EntryIsMaximum ==
    /\ [](pcB \in {"matrix", "done"} =>
            \A key \in AllKeys :
                /\ key \in DOMAIN log_L_rgs <=> ScoresOf(key, idx) # {}
                /\ key \in DOMAIN log_L_rgs =>
                      /\ log_L_rgs[key] \in ScoresOf(key, idx)
                      /\ \A v \in ScoresOf(key, idx) : RatLeq(v, log_L_rgs[key]))
    /\ [][(\A key \in DOMAIN log_L_rgs :
              /\ key \in DOMAIN log_L_rgs'
              /\ log_L_rgs'[key] # log_L_rgs[key] =>
                     RatLess(log_L_rgs[key], log_L_rgs'[key]))]_vars

C2_Witness ==
    /\ pcB = "done"
    /\ Len(sam) = 2
    /\ sam[1].reference_name # NoRef
    /\ Key(sam[1]) = Key(sam[2])
    /\ Score(sam[1]) # NoneVal
    /\ Score(sam[2]) # NoneVal
    /\ RatLess(Score(sam[2]), Score(sam[1]))
    /\ log_L_rgs[Key(sam[1])] = Score(sam[1])

Unscorable(alignment) ==
    /\ alignment.reference_name # NoRef
    /\ Score(alignment) = NoneVal

\* C3 as stated: an unscorable record is dropped: processing it does not
\* abort the build and leaves every matrix entry as it was, also when its
\* pair already has an entry.
C3_UnscorableDropped ==
    [][(pcB = "matrix" /\ idx < Len(sam) /\ Unscorable(sam[idx + 1])) =>
          (pcB' = "matrix" /\ idx' = idx + 1 /\ log_L_rgs' = log_L_rgs)]_vars

\* C5 as stated: no model is returned from a file without a primary
\* alignment.
C5_NoModelWithoutPrimary == ModelReturned => HasPrimary

\* C8 as stated: from a file with at least one primary alignment the model
\* stores only positive probabilities, and they sum to 1.
C8_PositiveAndSumsToOne ==
    (ModelReturned /\ HasPrimary) =>
        /\ \A char \in DOMAIN p_char : p_char[char][1] > 0
        /\ RatSum(p_char, DOMAIN p_char) = One

Reorderings(seq) ==
    { [i \in 1..Len(seq) |-> seq[pi[i]]] :
        pi \in { g \in [1..Len(seq) -> 1..Len(seq)] :
                    \A i, j \in 1..Len(seq) : g[i] = g[j] => i = j } }

\* C10 as stated: every permutation of the alignments gives the same
\* per-category sums and the same model, negative derived counts included.
C10_OrderIndependent ==
    ModelReturned =>
        \A perm \in Reorderings(sam) :
            /\ AccumulateAll(EmptyMap, perm) = char_align_stats_primary
            /\ get_char_align_probabilites(perm) = p_char

---------------------------------------------------------------------------
(* Claims about f_reduce (SpecReduce)                                      *)

\* C6 as stated: f_reduce reports an error when no entry is above the
\* threshold, and returns {s: f_s / sum of kept} in every other case.
C6_ErrorWhenNothingKept ==
    pcR \in {"once", "ZeroDivisionError"} =>
        IF Kept(rf, threshold) = {}
        THEN pcR # "once"
        ELSE /\ pcR = "once"
             /\ reduced = [s \in Kept(rf, threshold) |->
                              RatDiv(rf[s], RatSum(rf, Kept(rf, threshold)))]

\* C7 as stated: whenever f_reduce(f, threshold) is not empty, reducing it
\* again with the same threshold gives the same keys and values.
C7_Idempotent ==
    (pcR = "twice" /\ DOMAIN reduced # {}) => reduced2 = reduced

\* C7 amended: whenever f_reduce(f, threshold) is not empty and the entries
\* of f above the threshold sum to at most 1, reducing it again with the
\* same threshold gives the same keys and values.
C7_IdempotentWhenKeptSumAtMostOne ==
    (/\ pcR = "twice"
     /\ DOMAIN reduced # {}
     /\ RatLeq(RatSum(rf, { k \in DOMAIN rf : RatLess(threshold, rf[k]) }), One))
        => reduced2 = reduced

C7_Witness ==
    /\ pcR = "twice"
    /\ Cardinality(DOMAIN reduced) = 2
    /\ DOMAIN reduced # DOMAIN rf
    /\ \E k \in DOMAIN reduced : reduced[k] # rf[k]
    /\ RatLeq(RatSum(rf, { k \in DOMAIN rf : RatLess(threshold, rf[k]) }), One)
    /\ reduced2 = reduced

===========================================================================
